---- MODULE Spec2Model ----
(***************************************************************************)
(* Terraform provider for Lightdash: the lifecycle handlers (Create, Read, *)
(* Update, Delete) of the personal access token resource and of the two    *)
(* builds of the project resource, the API client calls they make, and the *)
(* Lightdash server and the Terraform orchestrator they run between.       *)
(*                                                                         *)
(* A UUID is a natural number; 0 is the empty string "".  A types.String   *)
(* that may be null is an optional value: None is null, Some(v) a value.   *)
(* A JSON body is a record whose DOMAIN is the set of the keys present, so *)
(* that an omitted key (omitempty on a nil pointer) differs from a key     *)
(* sent with an empty value.  A path is the sequence of its segments.      *)
(***************************************************************************)
EXTENDS Integers, Sequences, FiniteSets, TLC

VARIABLES
    kind,      \* the resource implementation this run exercises
    tstate,    \* Terraform state of the token resource: None or Some(record)
    pstate,    \* Terraform state of the project resource: None or Some(record)
    remote,    \* the Lightdash server: its tokens, its projects, its next UUID
    last,      \* the last handler call: its name, diagnostics, transport calls
    todo,      \* handler calls the orchestrator has planned and not yet made
    want,      \* the configuration the orchestrator is applying
    dstate,    \* state of the personal_access_tokens data source: None or Some(record)
    pair       \* two token resources of one configuration, and each of them alone

vars == <<kind, tstate, pstate, remote, last, todo, want, dstate, pair>>

\* The number of entities the server creates in one run.
MaxUuid == 3

None == <<>>
Some(v) == <<v>>

\* types.String.ValueString(): "" for null.
ValueString(x) == IF x = None THEN "" ELSE x[1]

\* types.String.ValueString() of a UUID-valued attribute: 0 is "".
ValueUuid(x) == IF x = None THEN 0 ELSE x[1]

NoDiags == [errors |-> <<>>, warnings |-> <<>>]

AddError(d, title) == [d EXCEPT !.errors = Append(@, title)]

AddWarning(d, title) == [d EXCEPT !.warnings = Append(@, title)]

HasError(d) == d.errors # <<>>

(***************************************************************************)
(* The Lightdash server and the transport.                                 *)
(***************************************************************************)

\* The organization the provider's bearer token belongs to.
ServerOrg == "o1"

Orgs == {"o1", "o2"}

\* What one HTTP exchange can come to: the server handles the request, the
\* exchange fails (network, non-2xx), or a 2xx answer carries no UUID.
Modes == {"ok", "fail", "nouuid"}

\* A GET of a project can also answer without a dbt version.
GetModes == {"ok", "fail", "nodbt"}

TokensPath == <<"api", "v1", "user", "me", "personal-access-tokens">>

ProjectsPath == <<"api", "v1", "projects">>

CreateProjectPath == <<"api", "v1", "org", "projects">>

NoBody == <<>>

Has(body, key) == key \in DOMAIN body

RECURSIVE RemoveUuid(_, _)
RemoveUuid(s, u) ==
    IF s = <<>> THEN <<>>
    ELSE IF Head(s).uuid = u THEN RemoveUuid(Tail(s), u)
    ELSE <<Head(s)>> \o RemoveUuid(Tail(s), u)

HasUuid(s, u) == \E i \in 1..Len(s) : s[i].uuid = u

\* POST /api/v1/user/me/personal-access-tokens: the newest token is listed first.
ServerCreateToken(srv, body) ==
    LET tok == [uuid |-> srv.next,
                description |-> body.description,
                createdAt |-> "now",
                expiresAt |-> IF Has(body, "expiresAt") THEN Some(body.expiresAt) ELSE None,
                rotatedAt |-> None,
                lastUsedAt |-> None]
    IN [err |-> FALSE,
        body |-> [uuid |-> tok.uuid, description |-> tok.description,
                  createdAt |-> tok.createdAt, expiresAt |-> tok.expiresAt,
                  token |-> <<"secret", tok.uuid>>],
        remote |-> [srv EXCEPT !.tokens = <<tok>> \o @, !.next = @ + 1]]

\* GET /api/v1/user/me/personal-access-tokens
ServerListTokens(srv) == [err |-> FALSE, body |-> srv.tokens, remote |-> srv]

\* DELETE /api/v1/user/me/personal-access-tokens/{uuid}; an unknown UUID is a 404.
ServerDeleteToken(srv, u) ==
    IF HasUuid(srv.tokens, u)
    THEN [err |-> FALSE, body |-> NoBody,
          remote |-> [srv EXCEPT !.tokens = RemoveUuid(@, u)]]
    ELSE [err |-> TRUE, body |-> NoBody, remote |-> srv]

\* POST /api/v1/org/projects: the request names no organization (the path and
\* models.CreateProject carry none), the project belongs to the organization of
\* the bearer token.  The server keeps what a later GET can show.
ServerCreateProject(srv, body) ==
    LET prj == [organizationUuid |-> ServerOrg,
                projectUuid |-> srv.next,
                name |-> body.name,
                type |-> body.type,
                dbtVersion |-> body.dbtVersion,
                organizationWarehouseCredentialsUuid |->
                    IF Has(body, "organizationWarehouseCredentialsUuid")
                    THEN Some(body.organizationWarehouseCredentialsUuid) ELSE None,
                upstreamProjectUuid |->
                    IF Has(body, "upstreamProjectUuid")
                    THEN Some(body.upstreamProjectUuid) ELSE None]
    IN [err |-> FALSE, body |-> prj,
        remote |-> [srv EXCEPT !.projects = <<prj>> \o @, !.next = @ + 1]]

HasProject(srv, u) == \E i \in 1..Len(srv.projects) : srv.projects[i].projectUuid = u

ProjectOf(srv, u) ==
    srv.projects[CHOOSE i \in 1..Len(srv.projects) : srv.projects[i].projectUuid = u]

\* GET /api/v1/projects/{uuid}; an unknown UUID is a 404.
ServerGetProject(srv, u) ==
    IF HasProject(srv, u)
    THEN [err |-> FALSE, body |-> ProjectOf(srv, u), remote |-> srv]
    ELSE [err |-> TRUE, body |-> NoBody, remote |-> srv]

\* PATCH /api/v1/projects/{uuid}: the keys of the body replace the stored
\* values, what the body does not name stays as it is.
ServerUpdateProject(srv, u, body) ==
    IF HasProject(srv, u)
    THEN LET old == ProjectOf(srv, u)
             new == [old EXCEPT
                        !.name = body.name,
                        !.dbtVersion = body.dbtVersion,
                        !.organizationWarehouseCredentialsUuid =
                            IF Has(body, "organizationWarehouseCredentialsUuid")
                            THEN Some(body.organizationWarehouseCredentialsUuid) ELSE @]
         IN [err |-> FALSE, body |-> new,
             remote |-> [srv EXCEPT !.projects =
                 [i \in 1..Len(@) |-> IF @[i].projectUuid = u THEN new ELSE @[i]]]]
    ELSE [err |-> TRUE, body |-> NoBody, remote |-> srv]

RECURSIVE RemoveProject(_, _)
RemoveProject(s, u) ==
    IF s = <<>> THEN <<>>
    ELSE IF Head(s).projectUuid = u THEN RemoveProject(Tail(s), u)
    ELSE <<Head(s)>> \o RemoveProject(Tail(s), u)

\* DELETE /api/v1/projects/{uuid}; an unknown UUID is a 404.
ServerDeleteProject(srv, u) ==
    IF HasProject(srv, u)
    THEN [err |-> FALSE, body |-> NoBody,
          remote |-> [srv EXCEPT !.projects = RemoveProject(@, u)]]
    ELSE [err |-> TRUE, body |-> NoBody, remote |-> srv]

\* A 2xx answer whose results carry no UUID (a proxy's page, another service's
\* answer): the request did not reach the handler that would have served it.
Blank(r, srv, key) ==
    IF r.err THEN r ELSE [r EXCEPT !.body = [@ EXCEPT ![key] = 0], !.remote = srv]

\* A 2xx answer whose project carries no dbt version.
NoDbtVersion(r) == IF r.err THEN r ELSE [r EXCEPT !.body = [@ EXCEPT !.dbtVersion = ""]]

IsUnder(path, prefix) ==
    /\ Len(path) = Len(prefix) + 1
    /\ SubSeq(path, 1, Len(prefix)) = prefix

\* The answer of the server to one request that reached it.
Serve(req, srv, mode) ==
    IF req.path = TokensPath /\ req.verb = "POST" THEN
        IF mode = "nouuid" THEN Blank(ServerCreateToken(srv, req.body), srv, "uuid")
        ELSE ServerCreateToken(srv, req.body)
    ELSE IF req.path = TokensPath /\ req.verb = "GET" THEN ServerListTokens(srv)
    ELSE IF IsUnder(req.path, TokensPath) /\ req.verb = "DELETE"
        THEN ServerDeleteToken(srv, req.path[Len(req.path)])
    ELSE IF req.path = CreateProjectPath /\ req.verb = "POST" THEN
        IF mode = "nouuid" THEN Blank(ServerCreateProject(srv, req.body), srv, "projectUuid")
        ELSE ServerCreateProject(srv, req.body)
    ELSE IF IsUnder(req.path, ProjectsPath) /\ req.verb = "GET" THEN
        IF mode = "nodbt" THEN NoDbtVersion(ServerGetProject(srv, req.path[Len(req.path)]))
        ELSE ServerGetProject(srv, req.path[Len(req.path)])
    ELSE IF IsUnder(req.path, ProjectsPath) /\ req.verb = "PATCH" THEN
        IF mode = "nouuid"
        THEN Blank(ServerUpdateProject(srv, req.path[Len(req.path)], req.body), srv,
                   "projectUuid")
        ELSE ServerUpdateProject(srv, req.path[Len(req.path)], req.body)
    ELSE IF IsUnder(req.path, ProjectsPath) /\ req.verb = "DELETE"
        THEN ServerDeleteProject(srv, req.path[Len(req.path)])
    ELSE [err |-> TRUE, body |-> NoBody, remote |-> srv]

\* Client.doRequest: one exchange; an error for a failed exchange and for a
\* non-2xx status, the body otherwise.  The answer carries the request sent.
DoRequest(req, srv, mode) ==
    IF mode = "fail" THEN [err |-> TRUE, body |-> NoBody, remote |-> srv, req |-> req]
    ELSE Serve(req, srv, mode) @@ [req |-> req]

(***************************************************************************)
(* The API client.  Each call is the request it sends and what it makes of *)
(* the answer r.                                                           *)
(***************************************************************************)

\* Client.CreatePersonalAccessTokenV1, from "Parse the response" on
CreatePersonalAccessTokenV1Response(r) ==
    IF r.err
    THEN [err |-> "error performing POST request for personal access token",
          result |-> NoBody, remote |-> r.remote, calls |-> <<r.req>>]
    ELSE IF r.body.uuid = 0
    THEN [err |-> "token UUID is missing in the response",
          result |-> NoBody, remote |-> r.remote, calls |-> <<r.req>>]
    ELSE [err |-> "", result |-> r.body, remote |-> r.remote, calls |-> <<r.req>>]

\* Client.CreatePersonalAccessTokenV1
CreatePersonalAccessTokenV1(request, srv, mode) ==
    CreatePersonalAccessTokenV1Response(
        DoRequest([verb |-> "POST", path |-> TokensPath, body |-> request], srv, mode))

\* Client.ListPersonalAccessTokensV1, from "Parse the response" on
ListPersonalAccessTokensV1Response(r) ==
    IF r.err
    THEN [err |-> "error performing GET request for personal access tokens",
          result |-> <<>>, remote |-> r.remote, calls |-> <<r.req>>]
    ELSE [err |-> "", result |-> r.body, remote |-> r.remote, calls |-> <<r.req>>]

\* Client.ListPersonalAccessTokensV1
ListPersonalAccessTokensV1(srv, mode) ==
    ListPersonalAccessTokensV1Response(
        DoRequest([verb |-> "GET", path |-> TokensPath, body |-> NoBody], srv, mode))

\* What a client call without a result makes of the answer r.
NoResultResponse(r, message) ==
    IF r.err
    THEN [err |-> message, remote |-> r.remote, calls |-> <<r.req>>]
    ELSE [err |-> "", remote |-> r.remote, calls |-> <<r.req>>]

\* DeletePersonalAccessTokenV1 without the validation of its argument.
DeletePersonalAccessTokenV1Unvalidated(tokenUuid, srv, mode) ==
    NoResultResponse(
        DoRequest([verb |-> "DELETE", path |-> Append(TokensPath, tokenUuid),
                   body |-> NoBody], srv, mode),
        "error performing DELETE request for personal access token")

\* Client.DeletePersonalAccessTokenV1
DeletePersonalAccessTokenV1(tokenUuid, srv, mode) ==
    IF tokenUuid = 0
    THEN [err |-> "token UUID is empty", remote |-> srv, calls |-> <<>>]
    ELSE NoResultResponse(
             DoRequest([verb |-> "DELETE", path |-> Append(TokensPath, tokenUuid),
                        body |-> NoBody], srv, mode),
             "error performing DELETE request for personal access token")

\* CreateProjectV1 taking any 2xx answer for a created project.
CreateProjectV1ResponseUnchecked(r) ==
    IF r.err
    THEN [err |-> "request failed", result |-> NoBody,
          remote |-> r.remote, calls |-> <<r.req>>]
    ELSE [err |-> "", result |-> r.body, remote |-> r.remote, calls |-> <<r.req>>]

\* CreateProjectV1 sending the request once more when the exchange failed.
CreateProjectV1ResponseRetried(r) ==
    IF r.err
    THEN [err |-> "request failed", result |-> NoBody,
          remote |-> r.remote, calls |-> <<r.req, r.req>>]
    ELSE IF r.body.projectUuid = 0
    THEN [err |-> "project UUID is missing in the response", result |-> NoBody,
          remote |-> r.remote, calls |-> <<r.req>>]
    ELSE [err |-> "", result |-> r.body, remote |-> r.remote, calls |-> <<r.req>>]

\* Client.CreateProjectV1, from "Unmarshal the response" on
CreateProjectV1Response(r) ==
    IF r.err
    THEN [err |-> "request failed", result |-> NoBody,
          remote |-> r.remote, calls |-> <<r.req>>]
    ELSE IF r.body.projectUuid = 0
    THEN [err |-> "project UUID is missing in the response", result |-> NoBody,
          remote |-> r.remote, calls |-> <<r.req>>]
    ELSE [err |-> "", result |-> r.body, remote |-> r.remote, calls |-> <<r.req>>]

\* Client.CreateProjectV1
CreateProjectV1(project, srv, mode) ==
    CreateProjectV1Response(
        DoRequest([verb |-> "POST", path |-> CreateProjectPath, body |-> project],
                  srv, mode))

\* Client.UpdateProjectV1, from "Unmarshal the response" on
UpdateProjectV1Response(r) ==
    IF r.err
    THEN [err |-> "request failed", result |-> NoBody,
          remote |-> r.remote, calls |-> <<r.req>>]
    ELSE IF r.body.projectUuid = 0
    THEN [err |-> "project UUID is missing in the response", result |-> NoBody,
          remote |-> r.remote, calls |-> <<r.req>>]
    ELSE [err |-> "", result |-> r.body, remote |-> r.remote, calls |-> <<r.req>>]

\* Client.UpdateProjectV1
UpdateProjectV1(projectUuid, project, srv, mode) ==
    UpdateProjectV1Response(
        DoRequest([verb |-> "PATCH", path |-> Append(ProjectsPath, projectUuid),
                   body |-> project], srv, mode))

\* Client.GetProjectV1, what it makes of the answer
GetProjectV1Response(r) ==
    IF r.err
    THEN [err |-> "request failed", result |-> NoBody,
          remote |-> r.remote, calls |-> <<r.req>>]
    ELSE [err |-> "",
          result |-> [OrganizationUUID |-> r.body.organizationUuid,
                      ProjectUUID |-> r.body.projectUuid,
                      ProjectName |-> r.body.name,
                      ProjectType |-> r.body.type,
                      DbtVersion |-> r.body.dbtVersion,
                      OrganizationWarehouseCredentialsUUID |->
                          r.body.organizationWarehouseCredentialsUuid,
                      UpstreamProjectUUID |-> r.body.upstreamProjectUuid],
          remote |-> r.remote, calls |-> <<r.req>>]

\* Client.GetProjectV1: one GET; a failed exchange or a non-2xx status is an error.
GetProjectV1(projectUuid, srv, mode) ==
    GetProjectV1Response(
        DoRequest([verb |-> "GET", path |-> Append(ProjectsPath, projectUuid),
                   body |-> NoBody], srv, mode))

\* Client.DeleteProjectV1: one DELETE; a failed exchange or a non-2xx status is an error.
DeleteProjectV1(projectUuid, srv, mode) ==
    NoResultResponse(
        DoRequest([verb |-> "DELETE", path |-> Append(ProjectsPath, projectUuid),
                   body |-> NoBody], srv, mode),
        "request failed")

(***************************************************************************)
(* The personal access token resource.                                     *)
(***************************************************************************)

Descriptions == {"d1", "d2"}

Expiries == {None, Some("e1")}

\* What a user can write in a lightdash_personal_access_token block.
TokenConfigs == [description : Descriptions, expires_at : Expiries]

\* The plan for a configuration: the computed attributes are unknown when there
\* is no prior state and taken from the prior state otherwise (UseStateForUnknown).
TokenPlan(cfg, prior) ==
    [id |-> IF prior = None THEN <<>> ELSE prior[1].id,
     token_uuid |-> IF prior = None THEN 0 ELSE prior[1].token_uuid,
     description |-> cfg.description,
     expires_at |-> cfg.expires_at,
     created_at |-> IF prior = None THEN "" ELSE prior[1].created_at,
     token |-> IF prior = None THEN <<>> ELSE prior[1].token]

\* The token's ID without its prefix.
getPersonalAccessTokenResourceIdBare(tokenUuid) == <<tokenUuid>>

getPersonalAccessTokenResourceId(tokenUuid) == <<"personal-access-tokens", tokenUuid>>

\* The request of Create without the expiry of the plan.
BuildCreatePersonalAccessTokenWithoutExpiry(plan) ==
    [description |-> plan.description, autoGenerated |-> FALSE]

\* The models.CreatePersonalAccessToken that Create builds from the plan.
BuildCreatePersonalAccessToken(plan) ==
    [description |-> plan.description, autoGenerated |-> FALSE]
    @@ (IF plan.expires_at # None THEN [expiresAt |-> plan.expires_at[1]] ELSE <<>>)

\* personalAccessTokenResource.Create, from the answer c of the client on
TokenCreated(plan, prior, c) ==
    IF c.err # ""
    THEN [state |-> prior, remote |-> c.remote, calls |-> c.calls,
          diags |-> AddError(NoDiags, "Error creating personal access token")]
    ELSE [state |-> Some([plan EXCEPT
              !.id = getPersonalAccessTokenResourceId(c.result.uuid),
              !.token_uuid = c.result.uuid,
              !.description = c.result.description,
              !.created_at = c.result.createdAt,
              !.token = c.result.token,
              !.expires_at = c.result.expiresAt]),
          remote |-> c.remote, calls |-> c.calls, diags |-> NoDiags]

\* personalAccessTokenResource.Create
TokenCreate(plan, prior, srv, mode) ==
    TokenCreated(plan, prior,
                 CreatePersonalAccessTokenV1(BuildCreatePersonalAccessToken(plan), srv, mode))

\* Read taking the first listed token, whatever its UUID.
FindTokenFirst(tokens, tokenUuid) ==
    IF tokens # <<>> THEN Some(tokens[1]) ELSE None

\* The first listed token with the UUID, as the loop of Read finds it.
FindToken(tokens, tokenUuid) ==
    IF HasUuid(tokens, tokenUuid)
    THEN Some(tokens[CHOOSE i \in 1..Len(tokens) :
                 /\ tokens[i].uuid = tokenUuid
                 /\ \A j \in 1..(i - 1) : tokens[j].uuid # tokenUuid])
    ELSE None

\* Read taking the token value from the listed entry, which carries none.
TokenRefreshedFromList(state, foundToken, l) ==
    IF foundToken = None
    THEN [state |-> None, remote |-> l.remote, calls |-> l.calls, diags |-> NoDiags]
    ELSE [state |-> Some([state EXCEPT
              !.description = foundToken[1].description,
              !.created_at = foundToken[1].createdAt,
              !.expires_at = foundToken[1].expiresAt,
              !.token = <<>>]),
          remote |-> l.remote, calls |-> l.calls, diags |-> NoDiags]

\* Read reporting a token that is not listed as an error.
TokenRefreshedOrError(state, foundToken, l) ==
    IF foundToken = None
    THEN [state |-> Some(state), remote |-> l.remote, calls |-> l.calls,
          diags |-> AddError(NoDiags, "Error Reading personal access token")]
    ELSE [state |-> Some([state EXCEPT
              !.description = foundToken[1].description,
              !.created_at = foundToken[1].createdAt,
              !.expires_at = foundToken[1].expiresAt]),
          remote |-> l.remote, calls |-> l.calls, diags |-> NoDiags]

\* personalAccessTokenResource.Read, from the token found on
TokenRefreshed(state, foundToken, l) ==
    IF foundToken = None
    THEN [state |-> None, remote |-> l.remote, calls |-> l.calls, diags |-> NoDiags]
    ELSE [state |-> Some([state EXCEPT
              !.description = foundToken[1].description,
              !.created_at = foundToken[1].createdAt,
              !.expires_at = foundToken[1].expiresAt]),
          remote |-> l.remote, calls |-> l.calls, diags |-> NoDiags]

\* personalAccessTokenResource.Read, from the answer l of the client on
TokenListed(prior, l) ==
    IF l.err # ""
    THEN [state |-> prior, remote |-> l.remote, calls |-> l.calls,
          diags |-> AddError(NoDiags, "Error Reading personal access token")]
    ELSE TokenRefreshed(prior[1], FindToken(l.result, prior[1].token_uuid), l)

\* personalAccessTokenResource.Read
TokenRead(prior, srv, mode) == TokenListed(prior, ListPersonalAccessTokensV1(srv, mode))

\* Update taking the plan for the new state.
TokenUpdateWritingPlan(plan, prior, srv) ==
    [state |-> Some(plan), remote |-> srv, calls |-> <<>>,
     diags |-> AddError(NoDiags, "Update not supported")]

\* personalAccessTokenResource.Update
TokenUpdate(plan, prior, srv) ==
    [state |-> prior, remote |-> srv, calls |-> <<>>,
     diags |-> AddError(NoDiags, "Update not supported")]

\* A Delete handler, from the answer d of the client on; the framework drops
\* the state when the handler reports no error.
Deleted(prior, d, title) ==
    IF d.err # ""
    THEN [state |-> prior, remote |-> d.remote, calls |-> d.calls,
          diags |-> AddError(NoDiags, title)]
    ELSE [state |-> None, remote |-> d.remote, calls |-> d.calls, diags |-> NoDiags]

\* personalAccessTokenResource.Delete
TokenDelete(prior, srv, mode) ==
    Deleted(prior, DeletePersonalAccessTokenV1(prior[1].token_uuid, srv, mode),
            "Error Deleting personal access token")

(***************************************************************************)
(* The personal_access_tokens data source.                                 *)
(***************************************************************************)

\* The personalAccessTokenModel that Read makes of one listed token.
FetchedToken(token) ==
    [token_uuid |-> token.uuid,
     description |-> token.description,
     created_at |-> token.createdAt,
     expires_at |-> IF token.expiresAt # None THEN Some(token.expiresAt[1]) ELSE None,
     rotated_at |-> IF token.rotatedAt # None THEN Some(token.rotatedAt[1]) ELSE None,
     last_used_at |-> IF token.lastUsedAt # None THEN Some(token.lastUsedAt[1]) ELSE None]

\* The loop of Read over the listed tokens, appending one model per token.
RECURSIVE FetchedTokens(_)
FetchedTokens(tokens) ==
    IF tokens = <<>> THEN <<>>
    ELSE <<FetchedToken(Head(tokens))>> \o FetchedTokens(Tail(tokens))

\* One model put into a sequence sorted by token_uuid, before the first
\* model with a greater or equal token_uuid.
RECURSIVE InsertByTokenUuid(_, _)
InsertByTokenUuid(t, sorted) ==
    IF sorted = <<>> THEN <<t>>
    ELSE IF t.token_uuid <= Head(sorted).token_uuid THEN <<t>> \o sorted
    ELSE <<Head(sorted)>> \o InsertByTokenUuid(t, Tail(sorted))

\* Read leaving the models in the order of the response.
SortByTokenUuidUnsorted(fetchedTokens) == fetchedTokens

\* sort.Slice of the models by token_uuid, ascending.
RECURSIVE SortByTokenUuid(_)
SortByTokenUuid(fetchedTokens) ==
    IF fetchedTokens = <<>> THEN <<>>
    ELSE InsertByTokenUuid(Head(fetchedTokens), SortByTokenUuid(Tail(fetchedTokens)))

\* personalAccessTokensDataSource.Read, from the answer l of the client on; a
\* Read that reports an error sets no state.
TokensListedForDataSource(l) ==
    IF l.err # ""
    THEN [state |-> None, remote |-> l.remote, calls |-> l.calls,
          diags |-> AddError(NoDiags, "Unable to get personal access tokens")]
    ELSE [state |-> Some([id |-> <<"personal-access-tokens">>,
                          tokens |-> SortByTokenUuid(FetchedTokens(l.result))]),
          remote |-> l.remote, calls |-> l.calls, diags |-> NoDiags]

\* personalAccessTokensDataSource.Read
TokensDataSourceRead(srv, mode) ==
    TokensListedForDataSource(ListPersonalAccessTokensV1(srv, mode))

(***************************************************************************)
(* The project resource.  Build 1 has a warehouse_connection attribute, an *)
(* Update that refuses and a Delete that only warns; build 2 has no        *)
(* warehouse_connection, patches and deletes remotely and can import.      *)
(***************************************************************************)

Names == {"n1", "n2"}

ProjectTypes == {"DEFAULT", "PREVIEW"}

\* encoding/json.Unmarshal of keyfile_contents into a map[string]interface{}:
\* an object parses, the literal null parses to a nil map, anything else fails.
JsonUnmarshalMap(text) ==
    IF text = "{\"k\":\"v\"}" THEN [err |-> FALSE, value |-> Some([k |-> "v"])]
    ELSE IF text = "null" THEN [err |-> FALSE, value |-> None]
    ELSE [err |-> TRUE, value |-> None]

DbtConnection(method, token, host, target) ==
    [type |-> "github", authorization_method |-> method,
     personal_access_token |-> token, repository |-> "my-org/dbt-project",
     branch |-> "main", project_sub_path |-> "/",
     host_domain |-> host, target |-> target]

WarehouseConnection(keyfile) ==
    [type |-> "bigquery", project |-> "my-gcp-project-id",
     dataset |-> Some("my_dataset"), keyfile_contents |-> keyfile,
     authentication_type |-> None, location |-> Some("US"),
     timeout_seconds |-> None, maximum_bytes_billed |-> None,
     priority |-> Some("INTERACTIVE"), retries |-> None, start_of_week |-> None]

\* The settings of a project next to its organization, name and type, after the
\* blocks of examples/resources/lightdash_project/resource.tf: "analytics" with
\* a token and shared credentials, and a preview of the project the server
\* starts with, by an installation with a host domain and a target.
Settings2 ==
    {[dbt_version |-> "v1.8",
      dbt_connection |-> Some(DbtConnection("personal_access_token", Some("ghp"), None, None)),
      organization_warehouse_credentials_uuid |-> Some("w1"),
      upstream_project_uuid |-> None],
     [dbt_version |-> "v1.10",
      dbt_connection |-> Some(DbtConnection("installation_id", None,
                                            Some("ghe.example.com"), Some("dev"))),
      organization_warehouse_credentials_uuid |-> None,
      upstream_project_uuid |-> Some(1)]}

\* "analytics" written without its personal_access_token, which the schema
\* declares Optional whatever the authorization_method.
TokenlessConfig ==
    [organization_uuid |-> ServerOrg, name |-> "n1", type |-> "DEFAULT",
     dbt_version |-> "v1.8",
     dbt_connection |-> Some(DbtConnection("personal_access_token", None, None, None)),
     organization_warehouse_credentials_uuid |-> Some("w1"),
     upstream_project_uuid |-> None]

\* The inline warehouse connections of build 1: "analytics_inline" of the
\* examples, one whose keyfile is no JSON, and one whose keyfile is the JSON
\* literal null.
WarehouseConnections ==
    {Some(WarehouseConnection("{\"k\":\"v\"}")), Some(WarehouseConnection("not json")),
     Some(WarehouseConnection("null"))}

\* Build 1 adds warehouse_connection: every setting comes without one, the
\* setting without shared credentials comes with each inline one too, and the
\* setting with shared credentials with "analytics_inline" (the schema has no
\* validator that keeps the two apart).
Settings1 ==
    {s @@ [warehouse_connection |-> None] : s \in Settings2}
    \cup {s @@ [warehouse_connection |-> w] :
              s \in {x \in Settings2 : x.organization_warehouse_credentials_uuid = None},
              w \in WarehouseConnections}
    \cup {s @@ [warehouse_connection |-> Some(WarehouseConnection("{\"k\":\"v\"}"))] :
              s \in {x \in Settings2 : x.organization_warehouse_credentials_uuid # None}}

\* What a user can write in a lightdash_project block of build 2.
ProjectConfigs2 ==
    {[organization_uuid |-> o, name |-> n, type |-> t] @@ s :
        o \in Orgs, n \in Names, t \in ProjectTypes, s \in Settings2}
    \cup {TokenlessConfig}

\* What a user can write in a lightdash_project block of build 1.
ProjectConfigs1 ==
    {[organization_uuid |-> o, name |-> n, type |-> t] @@ s :
        o \in Orgs, n \in Names, t \in ProjectTypes, s \in Settings1}
    \cup {TokenlessConfig @@ [warehouse_connection |-> None]}

ProjectConfigs(k) == IF k = "project1" THEN ProjectConfigs1 ELSE ProjectConfigs2

\* The plan for a configuration: id and project_uuid are unknown when there is
\* no prior state and taken from the prior state otherwise (UseStateForUnknown).
ProjectPlan(cfg, prior) ==
    cfg @@ [id |-> IF prior = None THEN <<>> ELSE prior[1].id,
            project_uuid |-> IF prior = None THEN 0 ELSE prior[1].project_uuid]

getProjectResourceId(organizationUUID, projectUUID) ==
    <<"organizations", organizationUUID, "projects", projectUUID>>

\* strings.ToLower on the priorities of the runs.
ToLower(x) == IF x = "INTERACTIVE" THEN "interactive" ELSE x

\* The models.DbtGithubProjectConfig that Create and Update build from the plan.
BuildDbtConnection(conn) ==
    IF conn = None THEN None
    ELSE LET c == conn[1]
         IN Some([type |-> "github",
                  authorization_method |-> c.authorization_method,
                  repository |-> c.repository,
                  branch |-> c.branch,
                  project_sub_path |-> c.project_sub_path]
                 @@ (IF c.personal_access_token # None
                     THEN [personal_access_token |-> c.personal_access_token[1]] ELSE <<>>)
                 @@ (IF c.host_domain # None
                     THEN [host_domain |-> c.host_domain[1]] ELSE <<>>)
                 @@ (IF c.target # None THEN [target |-> c.target[1]] ELSE <<>>))

\* The models.BigQueryCredentials that Create of build 1 builds from the plan.
BuildWarehouseConnection(w, keyfileMap) ==
    [type |-> w.type, project |-> w.project, keyfileContents |-> keyfileMap]
    @@ (IF w.dataset # None THEN [dataset |-> w.dataset[1]] ELSE <<>>)
    @@ (IF w.authentication_type # None
        THEN [authenticationType |-> w.authentication_type[1]] ELSE <<>>)
    @@ (IF w.location # None THEN [location |-> w.location[1]] ELSE <<>>)
    @@ (IF w.timeout_seconds # None
        THEN [timeoutSeconds |-> w.timeout_seconds[1]] ELSE <<>>)
    @@ (IF w.maximum_bytes_billed # None
        THEN [maximumBytesBilled |-> w.maximum_bytes_billed[1]] ELSE <<>>)
    @@ (IF w.priority # None THEN [priority |-> ToLower(w.priority[1])] ELSE <<>>)
    @@ (IF w.retries # None THEN [retries |-> w.retries[1]] ELSE <<>>)
    @@ (IF w.start_of_week # None THEN [startOfWeek |-> w.start_of_week[1]] ELSE <<>>)

\* CreateProject with upstreamProjectUuid an empty value instead of omitted.
BuildCreateProjectWithEmptyUpstream(plan) ==
    [name |-> plan.name, type |-> plan.type, dbtVersion |-> plan.dbt_version,
     dbtConnection |-> BuildDbtConnection(plan.dbt_connection),
     upstreamProjectUuid |-> IF plan.upstream_project_uuid # None
                             THEN plan.upstream_project_uuid[1] ELSE 0]
    @@ (IF plan.organization_warehouse_credentials_uuid # None
        THEN [organizationWarehouseCredentialsUuid |->
                  plan.organization_warehouse_credentials_uuid[1]] ELSE <<>>)

\* The models.CreateProject that Create builds, the warehouse connection apart.
BuildCreateProject(plan) ==
    [name |-> plan.name, type |-> plan.type, dbtVersion |-> plan.dbt_version,
     dbtConnection |-> BuildDbtConnection(plan.dbt_connection)]
    @@ (IF plan.organization_warehouse_credentials_uuid # None
        THEN [organizationWarehouseCredentialsUuid |->
                  plan.organization_warehouse_credentials_uuid[1]] ELSE <<>>)
    @@ (IF plan.upstream_project_uuid # None
        THEN [upstreamProjectUuid |-> plan.upstream_project_uuid[1]] ELSE <<>>)

\* Create leaving project_uuid as the plan has it.
ProjectCreatedWithoutUuid(plan, prior, c) ==
    IF c.err # ""
    THEN [state |-> prior, remote |-> c.remote, calls |-> c.calls,
          diags |-> AddError(NoDiags, "Error creating project")]
    ELSE [state |-> Some([plan EXCEPT
              !.id = getProjectResourceId(plan.organization_uuid, c.result.projectUuid)]),
          remote |-> c.remote, calls |-> c.calls, diags |-> NoDiags]

\* projectResource.Create, from the answer c of the client on
ProjectCreated(plan, prior, c) ==
    IF c.err # ""
    THEN [state |-> prior, remote |-> c.remote, calls |-> c.calls,
          diags |-> AddError(NoDiags, "Error creating project")]
    ELSE [state |-> Some([plan EXCEPT
              !.id = getProjectResourceId(plan.organization_uuid, c.result.projectUuid),
              !.project_uuid = c.result.projectUuid]),
          remote |-> c.remote, calls |-> c.calls, diags |-> NoDiags]

\* Create of build 1 sending the keyfile whether it parsed or not.
ProjectCreate1Unparsed(plan, prior, srv, mode, k) ==
    ProjectCreated(plan, prior,
        CreateProjectV1(
            BuildCreateProject(plan)
            @@ [warehouseConnection |->
                    BuildWarehouseConnection(plan.warehouse_connection[1], k.value)],
            srv, mode))

\* projectResource.Create of build 1, from the parsed keyfile k on
ProjectCreate1Parsed(plan, prior, srv, mode, k) ==
    IF k.err
    THEN [state |-> prior, remote |-> srv, calls |-> <<>>,
          diags |-> AddError(NoDiags, "Error parsing keyfile_contents")]
    ELSE ProjectCreated(plan, prior,
             CreateProjectV1(
                 BuildCreateProject(plan)
                 @@ [warehouseConnection |->
                         BuildWarehouseConnection(plan.warehouse_connection[1], k.value)],
                 srv, mode))

\* Create of build 1 refusing shared credentials next to inline ones.
ProjectCreate1Exclusive(plan, prior, srv, mode) ==
    IF /\ plan.warehouse_connection # None
       /\ plan.organization_warehouse_credentials_uuid # None
    THEN [state |-> prior, remote |-> srv, calls |-> <<>>,
          diags |-> AddError(NoDiags, "Invalid Attribute Combination")]
    ELSE IF plan.warehouse_connection = None
    THEN ProjectCreated(plan, prior, CreateProjectV1(BuildCreateProject(plan), srv, mode))
    ELSE ProjectCreate1Parsed(plan, prior, srv, mode,
             JsonUnmarshalMap(plan.warehouse_connection[1].keyfile_contents))

\* projectResource.Create of build 1
ProjectCreate1(plan, prior, srv, mode) ==
    IF plan.warehouse_connection = None
    THEN ProjectCreated(plan, prior, CreateProjectV1(BuildCreateProject(plan), srv, mode))
    ELSE ProjectCreate1Parsed(plan, prior, srv, mode,
             JsonUnmarshalMap(plan.warehouse_connection[1].keyfile_contents))

\* projectResource.Create of build 2
ProjectCreate2(plan, prior, srv, mode) ==
    ProjectCreated(plan, prior, CreateProjectV1(BuildCreateProject(plan), srv, mode))

\* Read writing what the answer carries of the connection and of the version.
ProjectFetchedFromAnswerOnly(prior, g) ==
    IF g.err # ""
    THEN [state |-> prior, remote |-> g.remote, calls |-> g.calls,
          diags |-> AddError(NoDiags, "Error Reading project")]
    ELSE [state |-> Some([prior[1] EXCEPT
              !.name = g.result.ProjectName,
              !.type = g.result.ProjectType,
              !.organization_uuid = g.result.OrganizationUUID,
              !.dbt_version = g.result.DbtVersion,
              !.dbt_connection = None,
              !.organization_warehouse_credentials_uuid =
                  g.result.OrganizationWarehouseCredentialsUUID,
              !.upstream_project_uuid = g.result.UpstreamProjectUUID]),
          remote |-> g.remote, calls |-> g.calls, diags |-> NoDiags]

\* Read writing the fields of an answer it did not get.
ProjectFetchedDespiteError(prior, g) ==
    IF g.err # ""
    THEN [state |-> Some([prior[1] EXCEPT
              !.name = "",
              !.type = "",
              !.organization_uuid = "",
              !.organization_warehouse_credentials_uuid = None,
              !.upstream_project_uuid = None]),
          remote |-> g.remote, calls |-> g.calls,
          diags |-> AddError(NoDiags, "Error Reading project")]
    ELSE [state |-> Some([prior[1] EXCEPT
              !.name = g.result.ProjectName,
              !.type = g.result.ProjectType,
              !.organization_uuid = g.result.OrganizationUUID,
              !.dbt_version = IF g.result.DbtVersion # "" THEN g.result.DbtVersion ELSE @,
              !.organization_warehouse_credentials_uuid =
                  g.result.OrganizationWarehouseCredentialsUUID,
              !.upstream_project_uuid = g.result.UpstreamProjectUUID]),
          remote |-> g.remote, calls |-> g.calls, diags |-> NoDiags]

\* projectResource.Read, from the answer g of the client on
ProjectFetched(prior, g) ==
    IF g.err # ""
    THEN [state |-> prior, remote |-> g.remote, calls |-> g.calls,
          diags |-> AddError(NoDiags, "Error Reading project")]
    ELSE [state |-> Some([prior[1] EXCEPT
              !.name = g.result.ProjectName,
              !.type = g.result.ProjectType,
              !.organization_uuid = g.result.OrganizationUUID,
              !.dbt_version = IF g.result.DbtVersion # "" THEN g.result.DbtVersion ELSE @,
              !.organization_warehouse_credentials_uuid =
                  g.result.OrganizationWarehouseCredentialsUUID,
              !.upstream_project_uuid = g.result.UpstreamProjectUUID]),
          remote |-> g.remote, calls |-> g.calls, diags |-> NoDiags]

\* projectResource.Read, the same in both builds
ProjectRead(prior, srv, mode) ==
    ProjectFetched(prior, GetProjectV1(prior[1].project_uuid, srv, mode))

\* projectResource.Update of build 1
ProjectUpdate1(plan, prior, srv, mode) ==
    [state |-> prior, remote |-> srv, calls |-> <<>>,
     diags |-> AddError(NoDiags, "Update not supported")]

\* The models.UpdateProject that Update of build 2 builds from the plan.
BuildUpdateProject(plan) ==
    [name |-> plan.name, dbtVersion |-> plan.dbt_version,
     dbtConnection |-> BuildDbtConnection(plan.dbt_connection)]
    @@ (IF plan.organization_warehouse_credentials_uuid # None
        THEN [organizationWarehouseCredentialsUuid |->
                  plan.organization_warehouse_credentials_uuid[1]] ELSE <<>>)

\* Update setting the state without the return after the error.
ProjectUpdatedWithoutReturn(plan, prior, u) ==
    IF u.err # ""
    THEN [state |-> Some(plan), remote |-> u.remote, calls |-> u.calls,
          diags |-> AddError(NoDiags, "Error Updating project")]
    ELSE [state |-> Some([plan EXCEPT !.name = u.result.name]),
          remote |-> u.remote, calls |-> u.calls, diags |-> NoDiags]

\* projectResource.Update of build 2, from the answer u of the client on
ProjectUpdated(plan, prior, u) ==
    IF u.err # ""
    THEN [state |-> prior, remote |-> u.remote, calls |-> u.calls,
          diags |-> AddError(NoDiags, "Error Updating project")]
    ELSE [state |-> Some([plan EXCEPT !.name = u.result.name]),
          remote |-> u.remote, calls |-> u.calls, diags |-> NoDiags]

\* projectResource.Update of build 2
ProjectUpdate2(plan, prior, srv, mode) ==
    ProjectUpdated(plan, prior,
                   UpdateProjectV1(plan.project_uuid, BuildUpdateProject(plan), srv, mode))

\* projectResource.Delete of build 1; the framework drops the state when the
\* handler reports no error.
ProjectDelete1(prior, srv, mode) ==
    [state |-> None, remote |-> srv, calls |-> <<>>,
     diags |-> AddWarning(NoDiags, "Project not deleted")]

\* projectResource.Delete of build 2
ProjectDelete2(prior, srv, mode) ==
    Deleted(prior, DeleteProjectV1(prior[1].project_uuid, srv, mode),
            "Error Deleting project")

\* An import ID is the sequence of its segments between the "/"; the last of
\* four is a UUID, 0 when it is empty.  The IDs of the runs: every well-formed
\* one, and ones the pattern of extractProjectResourceId does not match.
ImportIds ==
    {getProjectResourceId(o, u) : o \in Orgs, u \in 1..MaxUuid}
    \cup {<<"not-a-valid-id">>,
          <<"organizations", "o1", "projects">>,
          <<"organizations", "", "projects", 1>>,
          <<"organizations", "o1", "projects", 0>>,
          <<"projects", "o1", "organizations", 1>>,
          <<"organizations", "o1", "projects", 1, "settings">>}

\* The pattern without its end anchor: what follows the project part is ignored.
extractProjectResourceIdUnanchored(input) ==
    IF /\ Len(input) >= 4
       /\ input[1] = "organizations"
       /\ input[2] # ""
       /\ input[3] = "projects"
       /\ input[4] # 0
    THEN [err |-> FALSE, groups |-> <<input[2], input[4]>>]
    ELSE [err |-> TRUE, groups |-> <<>>]

\* extractProjectResourceId: the two groups of
\* ^organizations/([^/]+)/projects/([^/]+)$, or an error when it does not match.
extractProjectResourceId(input) ==
    IF /\ Len(input) = 4
       /\ input[1] = "organizations"
       /\ input[2] # ""
       /\ input[3] = "projects"
       /\ input[4] # 0
    THEN [err |-> FALSE, groups |-> <<input[2], input[4]>>]
    ELSE [err |-> TRUE, groups |-> <<>>]

\* ImportState without the warning at its end.
ProjectImportedSilently(id, g) ==
    IF g.err # ""
    THEN [state |-> None, remote |-> g.remote, calls |-> g.calls,
          diags |-> AddError(NoDiags, "Error Getting project")]
    ELSE [state |-> Some(
              [id |-> id,
               organization_uuid |-> g.result.OrganizationUUID,
               project_uuid |-> g.result.ProjectUUID,
               name |-> g.result.ProjectName,
               type |-> g.result.ProjectType,
               dbt_version |-> IF g.result.DbtVersion # "" THEN g.result.DbtVersion ELSE "",
               dbt_connection |-> None,
               organization_warehouse_credentials_uuid |->
                   g.result.OrganizationWarehouseCredentialsUUID,
               upstream_project_uuid |-> g.result.UpstreamProjectUUID]),
          remote |-> g.remote, calls |-> g.calls, diags |-> NoDiags]

\* projectResource.ImportState, from the answer g of the client on.  An
\* attribute that is not set is null: None, and "" for dbt_version.
ProjectImported(id, g) ==
    IF g.err # ""
    THEN [state |-> None, remote |-> g.remote, calls |-> g.calls,
          diags |-> AddError(NoDiags, "Error Getting project")]
    ELSE [state |-> Some(
              [id |-> id,
               organization_uuid |-> g.result.OrganizationUUID,
               project_uuid |-> g.result.ProjectUUID,
               name |-> g.result.ProjectName,
               type |-> g.result.ProjectType,
               dbt_version |-> IF g.result.DbtVersion # "" THEN g.result.DbtVersion ELSE "",
               dbt_connection |-> None,
               organization_warehouse_credentials_uuid |->
                   g.result.OrganizationWarehouseCredentialsUUID,
               upstream_project_uuid |-> g.result.UpstreamProjectUUID]),
          remote |-> g.remote, calls |-> g.calls,
          diags |-> AddWarning(NoDiags, "DBT Connection not imported")]

\* projectResource.ImportState, from the extracted groups e on
ProjectImportExtracted(id, e, srv, mode) ==
    IF e.err
    THEN [state |-> None, remote |-> srv, calls |-> <<>>,
          diags |-> AddError(NoDiags, "Error extracting resource ID")]
    ELSE ProjectImported(id, GetProjectV1(e.groups[2], srv, mode))

\* projectResource.ImportState of build 2
ProjectImportState(id, srv, mode) ==
    ProjectImportExtracted(id, extractProjectResourceId(id), srv, mode)

ProjectCreate(k, plan, prior, srv, mode) ==
    IF k = "project1" THEN ProjectCreate1(plan, prior, srv, mode)
    ELSE ProjectCreate2(plan, prior, srv, mode)

ProjectUpdate(k, plan, prior, srv, mode) ==
    IF k = "project1" THEN ProjectUpdate1(plan, prior, srv, mode)
    ELSE ProjectUpdate2(plan, prior, srv, mode)

ProjectDelete(k, prior, srv, mode) ==
    IF k = "project1" THEN ProjectDelete1(prior, srv, mode)
    ELSE ProjectDelete2(prior, srv, mode)

(***************************************************************************)
(* The handler calls as steps.                                             *)
(***************************************************************************)

Kinds == {"token", "project1", "project2"}

\* The project the server starts with; no resource of the run tracks it.
FirstProject ==
    [organizationUuid |-> ServerOrg, projectUuid |-> 1, name |-> "n1",
     type |-> "DEFAULT", dbtVersion |-> "v1.8",
     organizationWarehouseCredentialsUuid |-> None, upstreamProjectUuid |-> None]

NoCall ==
    [op |-> "none", mode |-> "", uuid |-> 0, diags |-> NoDiags, calls |-> <<>>, plan |-> None,
     kept |-> TRUE, remoteKept |-> TRUE, chain |-> ""]

\* Two lightdash_personal_access_token blocks of one configuration.
Instances == {"A", "B"}

\* The server of a run with no project and no token yet.
EmptyServer == [tokens |-> <<>>, projects |-> <<>>, next |-> 2]

\* The two resources after Configure: both hold the one *api.Client of the
\* provider; inst is the Terraform state of each, alone what each would be
\* had its calls been the only ones the server saw, by and op the last call.
PairStart ==
    [inst |-> [i \in Instances |-> None],
     alone |-> [i \in Instances |-> [state |-> None, remote |-> EmptyServer]],
     client |-> [HostUrl |-> "https://lightdash.example.com", Token |-> "api-key"],
     by |-> "", op |-> ""]

Init ==
    /\ kind \in Kinds
    /\ tstate = None
    /\ pstate = None
    /\ remote = [tokens |-> <<>>, projects |-> <<FirstProject>>, next |-> 2]
    /\ last = NoCall
    /\ todo = <<>>
    /\ want = None
    /\ dstate = None
    /\ pair = PairStart

\* What the run so far is, for the round trips: "create" after a Create that
\* succeeded, "create-read" after a Read that succeeded right after it, and
\* "import", "import-read", "update", "update-read" likewise.
NextChain(op, ok) ==
    IF op = "Create" /\ ok THEN "create"
    ELSE IF op = "Read" /\ ok /\ last.chain = "create" THEN "create-read"
    ELSE IF op = "Import" /\ ok THEN "import"
    ELSE IF op = "Read" /\ ok /\ last.chain = "import" THEN "import-read"
    ELSE IF op = "Update" /\ ok THEN "update"
    ELSE IF op = "Read" /\ ok /\ last.chain = "update" THEN "update-read"
    ELSE ""

\* The record of a handler call with result r: mode is what the exchange came
\* to, uuid the UUID in the state the call started from (0 for none), kept
\* says that the call left the Terraform state as it was, remoteKept that it
\* left the server as it was, and plan is the ID of the Import, the plan of
\* the Create or Update that succeeded, kept through the Read of a round trip,
\* or the plan of the Create that was refused before any exchange.
Called(name, op, mode, uuid, plan, prior, r) ==
    [op |-> name, mode |-> mode, uuid |-> uuid, diags |-> r.diags, calls |-> r.calls,
     plan |-> IF op = "Import" THEN plan
              ELSE IF op = "Create" /\ HasError(r.diags) /\ r.calls = <<>> THEN plan
              ELSE IF HasError(r.diags) THEN None
              ELSE IF op \in {"Create", "Update"} THEN plan
              ELSE IF NextChain(op, TRUE) # "" THEN last.plan
              ELSE None,
     kept |-> (r.state = prior), remoteKept |-> (r.remote = remote),
     chain |-> NextChain(op, ~HasError(r.diags))]

\* The state after a token handler call with result r.
TokenDone(op, mode, plan, r) ==
    /\ tstate' = r.state
    /\ remote' = r.remote
    /\ last' = Called("Token" \o op, op, mode,
                    IF tstate = None THEN 0 ELSE tstate[1].token_uuid, plan, tstate, r)
    /\ UNCHANGED <<kind, pstate, dstate, pair>>

\* The state after a project handler call with result r.
ProjectDone(op, mode, plan, r) ==
    /\ pstate' = r.state
    /\ remote' = r.remote
    /\ last' = Called("Project" \o op, op, mode,
                    IF pstate = None THEN 0 ELSE pstate[1].project_uuid, plan, pstate, r)
    /\ UNCHANGED <<kind, tstate, dstate, pair>>

IsProject(k) == k \in {"project1", "project2"}

\* One handler call of the resource of the run, for configuration cfg.
Handle(op, cfg, mode) ==
    IF kind = "token"
    THEN CASE op = "Create" ->
                  TokenDone(op, mode, Some(TokenPlan(cfg[1], None)),
                            TokenCreate(TokenPlan(cfg[1], None), None, remote, mode))
           [] op = "Read" -> TokenDone(op, mode, None, TokenRead(tstate, remote, mode))
           [] op = "Update" ->
                  TokenDone(op, mode, Some(TokenPlan(cfg[1], tstate)),
                            TokenUpdate(TokenPlan(cfg[1], tstate), tstate, remote))
           [] op = "Delete" -> TokenDone(op, mode, None, TokenDelete(tstate, remote, mode))
    ELSE CASE op = "Create" ->
                  ProjectDone(op, mode, Some(ProjectPlan(cfg[1], None)),
                              ProjectCreate(kind, ProjectPlan(cfg[1], None), None, remote, mode))
           [] op = "Read" -> ProjectDone(op, mode, None, ProjectRead(pstate, remote, mode))
           [] op = "Update" ->
                  ProjectDone(op, mode, Some(ProjectPlan(cfg[1], pstate)),
                              ProjectUpdate(kind, ProjectPlan(cfg[1], pstate), pstate,
                                            remote, mode))
           [] op = "Delete" -> ProjectDone(op, mode, None, ProjectDelete(kind, pstate, remote, mode))

TokenCreateStep ==
    /\ kind = "token" /\ tstate = None /\ remote.next <= MaxUuid
    /\ \E cfg \in TokenConfigs, mode \in Modes : Handle("Create", Some(cfg), mode)
    /\ UNCHANGED <<todo, want>>

TokenReadStep ==
    /\ kind = "token" /\ tstate # None
    /\ \E mode \in {"ok", "fail"} : Handle("Read", None, mode)
    /\ UNCHANGED <<todo, want>>

TokenUpdateStep ==
    /\ kind = "token" /\ tstate # None
    /\ \E cfg \in TokenConfigs : Handle("Update", Some(cfg), "ok")
    /\ UNCHANGED <<todo, want>>

TokenDeleteStep ==
    /\ kind = "token" /\ tstate # None
    /\ \E mode \in {"ok", "fail"} : Handle("Delete", None, mode)
    /\ UNCHANGED <<todo, want>>

\* Someone revokes the tracked token in the Lightdash UI.
RevokeTokenRemotely ==
    /\ kind = "token" /\ tstate # None
    /\ HasUuid(remote.tokens, tstate[1].token_uuid)
    /\ remote' = [remote EXCEPT !.tokens = RemoveUuid(@, tstate[1].token_uuid)]
    /\ last' = NoCall
    /\ UNCHANGED <<kind, tstate, pstate, todo, want, dstate, pair>>

\* Someone issues a token in the Lightdash UI: one that has been used, or one
\* that expires and has been rotated.
IssuedTokens ==
    {[description |-> "ui", createdAt |-> "now", expiresAt |-> None,
      rotatedAt |-> None, lastUsedAt |-> Some("2024-06-01T00:00:00Z")],
     [description |-> "ui", createdAt |-> "now",
      expiresAt |-> Some("2024-12-31T23:59:59Z"),
      rotatedAt |-> Some("2024-03-01T00:00:00Z"), lastUsedAt |-> None]}

IssueTokenRemotely ==
    /\ kind = "token" /\ remote.next <= MaxUuid
    /\ \E t \in IssuedTokens :
          remote' = [remote EXCEPT !.tokens = <<t @@ [uuid |-> remote.next]>> \o @,
                                   !.next = @ + 1]
    /\ last' = NoCall
    /\ UNCHANGED <<kind, tstate, pstate, todo, want, dstate, pair>>

\* The Read of the data source, in a run that has the token resource too.
TokensDataSourceReadStep ==
    /\ kind = "token"
    /\ \E mode \in {"ok", "fail"} :
          /\ dstate' = TokensDataSourceRead(remote, mode).state
          /\ remote' = TokensDataSourceRead(remote, mode).remote
          /\ last' = Called("TokensDataSourceRead", "DataSourceRead", mode, 0, None,
                           dstate, TokensDataSourceRead(remote, mode))
    /\ UNCHANGED <<kind, tstate, pstate, todo, want, pair>>

ProjectCreateStep ==
    /\ IsProject(kind) /\ pstate = None /\ remote.next <= MaxUuid
    /\ \E cfg \in ProjectConfigs(kind), mode \in Modes : Handle("Create", Some(cfg), mode)
    /\ UNCHANGED <<todo, want>>

ProjectReadStep ==
    /\ IsProject(kind) /\ pstate # None
    /\ \E mode \in GetModes : Handle("Read", None, mode)
    /\ UNCHANGED <<todo, want>>

ProjectUpdateStep ==
    /\ IsProject(kind) /\ pstate # None
    /\ \E cfg \in ProjectConfigs(kind), mode \in Modes : Handle("Update", Some(cfg), mode)
    /\ UNCHANGED <<todo, want>>

ProjectDeleteStep ==
    /\ IsProject(kind) /\ pstate # None
    /\ \E mode \in {"ok", "fail"} : Handle("Delete", None, mode)
    /\ UNCHANGED <<todo, want>>

ProjectImportStep ==
    /\ kind = "project2" /\ pstate = None
    /\ \E id \in ImportIds, mode \in GetModes :
          ProjectDone("Import", mode, Some([id |-> id]),
                      ProjectImportState(id, remote, mode))
    /\ UNCHANGED <<todo, want>>

\* Someone deletes the tracked project in the Lightdash UI.
DeleteProjectRemotely ==
    /\ IsProject(kind) /\ pstate # None
    /\ HasProject(remote, pstate[1].project_uuid)
    /\ remote' = [remote EXCEPT !.projects = RemoveProject(@, pstate[1].project_uuid)]
    /\ last' = NoCall
    /\ UNCHANGED <<kind, tstate, pstate, todo, want, dstate, pair>>

Next ==
    \/ TokenCreateStep
    \/ TokenReadStep
    \/ TokenUpdateStep
    \/ TokenDeleteStep
    \/ RevokeTokenRemotely
    \/ IssueTokenRemotely
    \/ TokensDataSourceReadStep
    \/ ProjectCreateStep
    \/ ProjectReadStep
    \/ ProjectUpdateStep
    \/ ProjectDeleteStep
    \/ ProjectImportStep
    \/ DeleteProjectRemotely

Spec == Init /\ [][Next]_vars

(***************************************************************************)
(* The Terraform orchestrator: it plans the handler calls of an apply from *)
(* the difference between the configuration and the state and from the     *)
(* plan modifiers of the schema, and makes the calls it planned in order.  *)
(***************************************************************************)

\* Schema of the token resource: the attributes with RequiresReplace.
RequiresReplaceToken(attr) == attr \in {"description", "expires_at"}

\* Schema of build 1 of the project resource: the attributes with RequiresReplace.
RequiresReplaceProject1(attr) == attr \in {"organization_uuid", "type"}

\* A schema of build 2 without the plan modifier on type.
RequiresReplaceProject2WithoutType(attr) == attr \in {"organization_uuid"}

\* Schema of build 2 of the project resource: the attributes with RequiresReplace.
RequiresReplaceProject2(attr) == attr \in {"organization_uuid", "type"}

RequiresReplace(k, attr) ==
    CASE k = "token" -> RequiresReplaceToken(attr)
      [] k = "project1" -> RequiresReplaceProject1(attr)
      [] k = "project2" -> RequiresReplaceProject2(attr)

Configs(k) == IF k = "token" THEN TokenConfigs ELSE ProjectConfigs(k)

\* The Terraform state of the resource of the run.
Tracked == IF kind = "token" THEN tstate ELSE pstate

\* The attributes of the configuration whose value is not the one in the state.
Changed(cfg, state) == {attr \in DOMAIN cfg : cfg[attr] # state[attr]}

\* The handler calls of an apply of cfg over the prior state: nothing tracked is
\* created, a changed attribute with RequiresReplace has the resource destroyed
\* and created anew, any other change is an Update, no change is no call.
PlannedCalls(k, cfg, prior) ==
    IF prior = None THEN <<"Create">>
    ELSE IF \E attr \in Changed(cfg, prior[1]) : RequiresReplace(k, attr)
    THEN <<"Delete", "Create">>
    ELSE IF Changed(cfg, prior[1]) # {} THEN <<"Update">>
    ELSE <<>>

\* terraform plan for a configuration
OrchPlan ==
    /\ todo = <<>>
    /\ \E cfg \in Configs(kind) :
          /\ want' = Some(cfg)
          /\ todo' = PlannedCalls(kind, cfg, Tracked)
    /\ last' = NoCall
    /\ UNCHANGED <<kind, tstate, pstate, remote, dstate, pair>>

\* terraform plan -destroy
OrchPlanDestroy ==
    /\ todo = <<>>
    /\ Tracked # None
    /\ want' = None
    /\ todo' = <<"Delete">>
    /\ last' = NoCall
    /\ UNCHANGED <<kind, tstate, pstate, remote, dstate, pair>>

\* The next planned call; an error ends the apply.
OrchStep ==
    /\ todo # <<>>
    /\ Head(todo) = "Create" => remote.next <= MaxUuid
    /\ \E mode \in Modes : Handle(Head(todo), want, mode)
    /\ todo' = IF HasError(last'.diags) THEN <<>> ELSE Tail(todo)
    /\ want' = want

\* terraform refresh
OrchRefresh ==
    /\ todo = <<>>
    /\ Tracked # None
    /\ \E mode \in GetModes : Handle("Read", None, mode)
    /\ UNCHANGED <<todo, want>>

NextOrch ==
    \/ OrchPlan
    \/ OrchPlanDestroy
    \/ OrchStep
    \/ OrchRefresh
    \/ RevokeTokenRemotely
    \/ DeleteProjectRemotely

SpecOrch == Init /\ [][NextOrch]_vars

(***************************************************************************)
(* Two token resources of one configuration.  Terraform walks independent  *)
(* resources in parallel; each handler shares with the others only the     *)
(* client, through which it makes its one exchange, so that the handler    *)
(* calls of the two interleave as whole steps.                             *)
(***************************************************************************)

\* The state after the handler call op of instance i with result r, s being
\* the result of the same call had the server seen the calls of i only.
PairDone(i, op, r, s) ==
    /\ pair' = [pair EXCEPT !.inst[i] = r.state,
                            !.alone[i] = [state |-> s.state, remote |-> s.remote],
                            !.by = i, !.op = op]
    /\ remote' = r.remote
    /\ UNCHANGED <<kind, tstate, pstate, last, todo, want, dstate>>

\* The server of i alone, about to issue the UUID the shared server issues.
AloneServer(i) == [pair.alone[i].remote EXCEPT !.next = remote.next]

PairCreateStep ==
    /\ kind = "token" /\ remote.next <= MaxUuid
    /\ \E i \in Instances, cfg \in TokenConfigs, mode \in Modes :
          /\ pair.inst[i] = None
          /\ PairDone(i, "Create",
                      TokenCreate(TokenPlan(cfg, None), None, remote, mode),
                      TokenCreate(TokenPlan(cfg, None), None, AloneServer(i), mode))

PairReadStep ==
    /\ kind = "token"
    /\ \E i \in Instances, mode \in {"ok", "fail"} :
          /\ pair.inst[i] # None
          /\ PairDone(i, "Read",
                      TokenRead(pair.inst[i], remote, mode),
                      TokenRead(pair.alone[i].state, pair.alone[i].remote, mode))

PairUpdateStep ==
    /\ kind = "token"
    /\ \E i \in Instances, cfg \in TokenConfigs :
          /\ pair.inst[i] # None
          /\ PairDone(i, "Update",
                      TokenUpdate(TokenPlan(cfg, pair.inst[i]), pair.inst[i], remote),
                      TokenUpdate(TokenPlan(cfg, pair.alone[i].state), pair.alone[i].state,
                                  pair.alone[i].remote))

PairDeleteStep ==
    /\ kind = "token"
    /\ \E i \in Instances, mode \in {"ok", "fail"} :
          /\ pair.inst[i] # None
          /\ PairDone(i, "Delete",
                      TokenDelete(pair.inst[i], remote, mode),
                      TokenDelete(pair.alone[i].state, pair.alone[i].remote, mode))

NextPair ==
    \/ PairCreateStep
    \/ PairReadStep
    \/ PairUpdateStep
    \/ PairDeleteStep

SpecPair == Init /\ [][NextPair]_vars

(***************************************************************************)
(* Properties.                                                             *)
(***************************************************************************)

Ok(call) == ~HasError(call.diags)

IsPatch(call) == call.verb = "PATCH"

\* C1: a project Create that succeeds, followed by a Read that succeeds, leaves
\* a state whose name, type, dbt_version, organization_uuid,
\* organization_warehouse_credentials_uuid and upstream_project_uuid are those
\* of the plan of the Create, and whose project_uuid is not empty.
C1_CreateReadRoundTrip ==
    (kind = "project2" /\ last.op = "ProjectRead" /\ last.chain = "create-read") =>
        /\ pstate # None
        /\ pstate[1].name = last.plan[1].name
        /\ pstate[1].type = last.plan[1].type
        /\ pstate[1].dbt_version = last.plan[1].dbt_version
        /\ pstate[1].organization_uuid = last.plan[1].organization_uuid
        /\ pstate[1].organization_warehouse_credentials_uuid =
               last.plan[1].organization_warehouse_credentials_uuid
        /\ pstate[1].upstream_project_uuid = last.plan[1].upstream_project_uuid
        /\ pstate[1].project_uuid # 0

\* C2: a Create of a project or of a token whose request was answered 2xx with
\* an empty UUID reports an error and leaves no state.
C2_EmptyUuidIsNotCreated ==
    (last.op \in {"ProjectCreate", "TokenCreate"} /\ last.mode = "nouuid"
        /\ last.calls # <<>>) =>
        /\ HasError(last.diags)
        /\ tstate = None
        /\ pstate = None

C2_Witness ==
    /\ last.op = "ProjectCreate"
    /\ last.mode = "nouuid"
    /\ Len(last.calls) = 1
    /\ last.calls[1].verb = "POST"
    /\ remote.next = 2

\* C3: the token value of a tracked token changes in no step, a Read that
\* finds the token included, and a step that gives the state a token value is
\* a Create.
C3_TokenValueKept ==
    [][(tstate' # None /\ tstate' # tstate) =>
           IF tstate = None THEN last'.op = "TokenCreate"
           ELSE tstate'[1].token = tstate[1].token]_vars

C3_Witness ==
    /\ last.op = "TokenRead"
    /\ Ok(last)
    /\ tstate # None
    /\ tstate[1].token = <<"secret", tstate[1].token_uuid>>
    /\ HasUuid(remote.tokens, tstate[1].token_uuid)

\* C4: a project Read that the server answered, for a project the server no
\* longer has, drops the state and reports no error.
C4_MissingProjectIsAbsent ==
    (last.op = "ProjectRead" /\ last.mode = "ok" /\ ~HasProject(remote, last.uuid)) =>
        /\ pstate = None
        /\ Ok(last)

\* C5: a token Read makes one GET of the token list; when the list is
\* answered, the state is kept exactly if the list has an entry with the
\* token_uuid of the state, with the description and the expiry of that
\* entry, and dropped otherwise, and no error is reported.
C5_TokenReadSelectsByUuid ==
    (last.op = "TokenRead") =>
        /\ last.calls = <<[verb |-> "GET", path |-> TokensPath, body |-> NoBody]>>
        /\ last.mode = "ok" =>
              /\ Ok(last)
              /\ (tstate # None) = HasUuid(remote.tokens, last.uuid)
              /\ tstate # None =>
                    /\ tstate[1].token_uuid = last.uuid
                    /\ tstate[1].description =
                           FindToken(remote.tokens, last.uuid)[1].description
                    /\ tstate[1].expires_at =
                           FindToken(remote.tokens, last.uuid)[1].expiresAt

C5_Witness ==
    /\ last.op = "TokenRead"
    /\ last.mode = "ok"
    /\ last.uuid # 0
    /\ ~HasUuid(remote.tokens, last.uuid)
    /\ tstate = None

\* C6: an Update of a token reports the error "Update not supported", makes no
\* transport call, and leaves the server and the state as they were.
C6_TokenUpdateRefused ==
    (last.op = "TokenUpdate") =>
        /\ last.diags.errors = <<"Update not supported">>
        /\ last.calls = <<>>
        /\ last.remoteKept
        /\ last.kept

C6_Witness ==
    /\ last.op = "TokenUpdate"
    /\ tstate # None
    /\ HasUuid(remote.tokens, tstate[1].token_uuid)

\* C7: when the configuration differs from the state in the type or the
\* organization_uuid of a project, or in the description or the expires_at of
\* a token, the calls planned are Delete then Create, so no Update is called
\* for such a change, and a PATCH is sent only by the Update of a project.
C7_ReplaceNotUpdate ==
    LET flagged == IF kind = "token" THEN {"description", "expires_at"}
                   ELSE {"type", "organization_uuid"}
    IN /\ (/\ todo # <<>>
           /\ want # None
           /\ Tracked # None
           /\ Changed(want[1], Tracked[1]) \cap flagged # {}) =>
              todo = <<"Delete", "Create">>
       /\ \A i \in 1..Len(last.calls) :
             IsPatch(last.calls[i]) => last.op = "ProjectUpdate"

\* The Create of a replacement is next, its Delete is done.
C7_Witness ==
    /\ kind = "project2"
    /\ todo = <<"Create">>
    /\ last.op = "ProjectDelete"
    /\ Ok(last)
    /\ pstate = None

\* C8: the Update of a token and the Update of build 1 of the project, which
\* always fail, are never called by the orchestrator.
C8_FailingUpdateNeverCalled ==
    /\ last.op # "TokenUpdate"
    /\ ~(kind = "project1" /\ last.op = "ProjectUpdate")

\* C9: a Create that succeeds gives the state the UUID the server assigned; no
\* step changes the UUID of a tracked entity; an Update of a project addresses
\* its one request to the UUID of the state.
C9_IdentityAssignedOnce ==
    /\ [](/\ (last.op = "ProjectCreate" /\ Ok(last)) =>
                 /\ pstate # None
                 /\ pstate[1].project_uuid = remote.next - 1
                 /\ pstate[1].project_uuid = ProjectOf(remote, remote.next - 1).projectUuid
          /\ (last.op = "TokenCreate" /\ Ok(last)) =>
                 /\ tstate # None
                 /\ tstate[1].token_uuid = remote.next - 1
                 /\ HasUuid(remote.tokens, tstate[1].token_uuid)
          /\ (last.op = "ProjectUpdate" /\ kind = "project2") =>
                 /\ last.uuid # 0
                 /\ pstate[1].project_uuid = last.uuid
                 /\ \A i \in 1..Len(last.calls) :
                       last.calls[i].path = Append(ProjectsPath, last.uuid))
    /\ [][/\ (pstate # None /\ pstate' # None) =>
                 pstate'[1].project_uuid = pstate[1].project_uuid
          /\ (tstate # None /\ tstate' # None) =>
                 tstate'[1].token_uuid = tstate[1].token_uuid]_vars

C9_Witness ==
    /\ kind = "project2"
    /\ last.op = "ProjectUpdate"
    /\ Ok(last)
    /\ last.uuid = 3
    /\ pstate[1].project_uuid = 3

\* C10: an Update of build 2 of the project makes exactly one request, a PATCH
\* to the UUID of the state; when it succeeds the request carried the name,
\* dbt_version and dbt_connection of the plan and the state is the plan with
\* the name of the answer; when the request fails or the answer has no project
\* UUID it reports an error and leaves the state as it was.
C10_ProjectUpdatePatches ==
    (kind = "project2" /\ last.op = "ProjectUpdate") =>
        /\ Len(last.calls) = 1
        /\ last.calls[1].verb = "PATCH"
        /\ last.calls[1].path = Append(ProjectsPath, last.uuid)
        /\ last.mode \in {"fail", "nouuid"} => HasError(last.diags)
        /\ HasError(last.diags) => last.kept
        /\ Ok(last) =>
              /\ last.calls[1].body.name = last.plan[1].name
              /\ last.calls[1].body.dbtVersion = last.plan[1].dbt_version
              /\ last.calls[1].body.dbtConnection[1].authorization_method =
                     last.plan[1].dbt_connection[1].authorization_method
              /\ last.calls[1].body.dbtConnection[1].repository =
                     last.plan[1].dbt_connection[1].repository
              /\ last.calls[1].body.dbtConnection[1].branch =
                     last.plan[1].dbt_connection[1].branch
              /\ Has(last.calls[1].body.dbtConnection[1], "personal_access_token") =
                     (last.plan[1].dbt_connection[1].personal_access_token # None)
              /\ Has(last.calls[1].body.dbtConnection[1], "host_domain") =
                     (last.plan[1].dbt_connection[1].host_domain # None)
              /\ Has(last.calls[1].body.dbtConnection[1], "target") =
                     (last.plan[1].dbt_connection[1].target # None)
              /\ pstate = Some([last.plan[1] EXCEPT
                                   !.name = ProjectOf(remote, last.uuid).name])

C10_Witness ==
    /\ kind = "project2"
    /\ last.op = "ProjectUpdate"
    /\ Ok(last)
    /\ ~last.kept
    /\ ~last.remoteKept
    /\ pstate[1].name = "n2"
    /\ ProjectOf(remote, last.uuid).name = "n2"

\* C11: a Delete that reaches the server ends the same way whether the server
\* still has the entity or not: it reports no error and the state is dropped.
C11_DeleteIdempotent ==
    (last.op \in {"TokenDelete", "ProjectDelete"} /\ last.mode = "ok") =>
        /\ Ok(last)
        /\ Tracked = None

\* C12: a Delete of a project makes no transport call, reports a warning and
\* no error, drops the state, and leaves the server as it was.
C12_ProjectDeleteLocalOnly ==
    (last.op = "ProjectDelete") =>
        /\ last.calls = <<>>
        /\ Ok(last)
        /\ last.diags.warnings # <<>>
        /\ pstate = None
        /\ last.remoteKept

\* C13: an Import of "organizations/ORG/projects/PROJ" that succeeds, followed
\* by a Read that succeeds, leaves a state whose organization_uuid is ORG and
\* whose project_uuid is PROJ.
C13_ImportReadRoundTrip ==
    (last.op = "ProjectRead" /\ last.chain = "import-read") =>
        /\ pstate # None
        /\ pstate[1].organization_uuid = last.plan[1].id[2]
        /\ pstate[1].project_uuid = last.plan[1].id[4]

\* C14: an Import of an ID that is not "organizations", a non-empty
\* organization, "projects" and a non-empty project, in four segments, reports
\* the error of the extraction, makes no transport call and sets no state.
C14_MalformedImportRejected ==
    last.op = "ProjectImport" =>
        LET id == last.plan[1].id
        IN ~(/\ Len(id) = 4
             /\ id[1] = "organizations"
             /\ id[2] # ""
             /\ id[3] = "projects"
             /\ id[4] # 0) =>
               /\ last.diags.errors = <<"Error extracting resource ID">>
               /\ last.diags.warnings = <<>>
               /\ last.calls = <<>>
               /\ last.remoteKept
               /\ pstate = None

C14_Witness ==
    /\ last.op = "ProjectImport"
    /\ last.plan[1].id = <<"organizations", "o1", "projects", 1, "settings">>
    /\ last.mode = "ok"
    /\ HasProject(remote, 1)
    /\ HasError(last.diags)

\* C15: an Import that succeeds sets a state without dbt_connection and
\* reports the warning "DBT Connection not imported"; an Import that fails
\* reports no warning and sets no state.
C15_ImportWarnsOfMissingConnection ==
    last.op = "ProjectImport" =>
        IF Ok(last)
        THEN /\ pstate # None
             /\ pstate[1].dbt_connection = None
             /\ last.diags.warnings = <<"DBT Connection not imported">>
        ELSE /\ pstate = None
             /\ last.diags.warnings = <<>>

C15_Witness ==
    /\ last.op = "ProjectImport"
    /\ Ok(last)
    /\ pstate # None
    /\ pstate[1].project_uuid = 1
    /\ pstate[1].dbt_connection = None

\* C16: for a project that was created and then refreshed, importing the ID
\* organizations/<organization_uuid>/projects/<project_uuid> built from its
\* state gives a state equal to it on id, organization_uuid, project_uuid,
\* name, type, dbt_version, organization_warehouse_credentials_uuid and
\* upstream_project_uuid.
C16_ImportAgreesWithCreateRead ==
    (kind = "project2" /\ last.op = "ProjectRead" /\ last.chain = "create-read"
        /\ Ok(last) /\ pstate # None) =>
        \A f \in {"id", "organization_uuid", "project_uuid", "name", "type",
                  "dbt_version", "organization_warehouse_credentials_uuid",
                  "upstream_project_uuid"} :
            /\ ProjectImportState(
                   getProjectResourceId(pstate[1].organization_uuid,
                                        pstate[1].project_uuid),
                   remote, "ok").state # None
            /\ ProjectImportState(
                   getProjectResourceId(pstate[1].organization_uuid,
                                        pstate[1].project_uuid),
                   remote, "ok").state[1][f] = pstate[1][f]

\* C17: the body of the POST of a Create that succeeded has
\* organizationWarehouseCredentialsUuid, upstreamProjectUuid and
\* warehouseConnection, and its dbtConnection has personal_access_token,
\* host_domain and target, exactly when the plan sets the attribute, with the
\* plan's value; the body of a token's POST has expiresAt exactly when the
\* plan sets expires_at.
C17_CreatePayloadHasSetFields ==
    /\ (last.op = "ProjectCreate" /\ Ok(last)) =>
          /\ Len(last.calls) = 1
          /\ last.calls[1].verb = "POST"
          /\ ("organizationWarehouseCredentialsUuid" \in DOMAIN last.calls[1].body)
                 <=> (last.plan[1].organization_warehouse_credentials_uuid # None)
          /\ (last.plan[1].organization_warehouse_credentials_uuid # None) =>
                 last.calls[1].body.organizationWarehouseCredentialsUuid
                     = last.plan[1].organization_warehouse_credentials_uuid[1]
          /\ ("upstreamProjectUuid" \in DOMAIN last.calls[1].body)
                 <=> (last.plan[1].upstream_project_uuid # None)
          /\ (last.plan[1].upstream_project_uuid # None) =>
                 last.calls[1].body.upstreamProjectUuid
                     = last.plan[1].upstream_project_uuid[1]
          /\ ("warehouseConnection" \in DOMAIN last.calls[1].body)
                 <=> /\ "warehouse_connection" \in DOMAIN last.plan[1]
                     /\ last.plan[1].warehouse_connection # None
          /\ \A f \in {"personal_access_token", "host_domain", "target"} :
                 /\ (f \in DOMAIN last.calls[1].body.dbtConnection[1])
                        <=> (last.plan[1].dbt_connection[1][f] # None)
                 /\ (last.plan[1].dbt_connection[1][f] # None) =>
                        last.calls[1].body.dbtConnection[1][f]
                            = last.plan[1].dbt_connection[1][f][1]
    /\ (last.op = "TokenCreate" /\ Ok(last)) =>
          /\ Len(last.calls) = 1
          /\ last.calls[1].verb = "POST"
          /\ ("expiresAt" \in DOMAIN last.calls[1].body)
                 <=> (last.plan[1].expires_at # None)
          /\ (last.plan[1].expires_at # None) =>
                 last.calls[1].body.expiresAt = last.plan[1].expires_at[1]

C17_Witness ==
    /\ last.op = "ProjectCreate"
    /\ Ok(last)
    /\ last.plan[1].type = "PREVIEW"
    /\ last.plan[1].upstream_project_uuid = Some(1)
    /\ last.calls[1].body.upstreamProjectUuid = 1
    /\ "organizationWarehouseCredentialsUuid" \notin DOMAIN last.calls[1].body
    /\ pstate # None
    /\ pstate[1].project_uuid # 1

\* C18 as stated: a Create whose keyfile_contents is not a JSON object reports
\* "Error parsing keyfile_contents", makes no call and writes no state.
C18_NonObjectKeyfileRejected ==
    (last.op = "ProjectCreate" /\ last.plan # None
        /\ "warehouse_connection" \in DOMAIN last.plan[1]
        /\ last.plan[1].warehouse_connection # None
        /\ last.plan[1].warehouse_connection[1].keyfile_contents # "{\"k\":\"v\"}") =>
        /\ last.diags.errors = <<"Error parsing keyfile_contents">>
        /\ last.calls = <<>>
        /\ last.kept
        /\ pstate = None

\* C18: a Create whose keyfile_contents is neither a JSON object nor the
\* literal null reports "Error parsing keyfile_contents", makes no call and
\* writes no state; a keyfile that is a JSON object is sent as that object,
\* and the literal null is accepted and sent as null.
C18_UnparsableKeyfileRejected ==
    (last.op = "ProjectCreate" /\ last.plan # None
        /\ "warehouse_connection" \in DOMAIN last.plan[1]
        /\ last.plan[1].warehouse_connection # None) =>
        CASE last.plan[1].warehouse_connection[1].keyfile_contents = "{\"k\":\"v\"}" ->
                 /\ Ok(last)
                 /\ last.calls[1].body.warehouseConnection.keyfileContents
                        = Some([k |-> "v"])
          [] last.plan[1].warehouse_connection[1].keyfile_contents = "null" ->
                 /\ Ok(last)
                 /\ last.calls[1].body.warehouseConnection.keyfileContents = None
          [] OTHER ->
                 /\ last.diags.errors = <<"Error parsing keyfile_contents">>
                 /\ last.calls = <<>>
                 /\ last.remoteKept
                 /\ last.kept
                 /\ pstate = None

C18_Witness ==
    /\ last.op = "ProjectCreate"
    /\ last.plan # None
    /\ "warehouse_connection" \in DOMAIN last.plan[1]
    /\ last.plan[1].warehouse_connection # None
    /\ last.plan[1].warehouse_connection[1].keyfile_contents = "not json"
    /\ last.mode = "ok"
    /\ HasError(last.diags)
    /\ last.calls = <<>>

\* C19: in every project state, id is "organizations/" + organization_uuid +
\* "/projects/" + project_uuid of that state.
C19_ProjectIdIsComposite ==
    (IsProject(kind) /\ pstate # None) =>
        pstate[1].id = <<"organizations", pstate[1].organization_uuid,
                         "projects", pstate[1].project_uuid>>

\* C20: in every token state, id is "personal-access-tokens/" + token_uuid,
\* and a Read that keeps the token leaves id and token_uuid as they were.
C20_TokenIdIsComposite ==
    /\ [](tstate # None =>
            /\ tstate[1].token_uuid # 0
            /\ tstate[1].id = <<"personal-access-tokens", tstate[1].token_uuid>>)
    /\ [][(last'.op = "TokenRead" /\ tstate # None /\ tstate' # None) =>
              /\ tstate'[1].id = tstate[1].id
              /\ tstate'[1].token_uuid = tstate[1].token_uuid]_vars

C20_Witness ==
    /\ last.op = "TokenRead"
    /\ Ok(last)
    /\ tstate # None
    /\ tstate[1].token_uuid = 2
    /\ tstate[1].id = <<"personal-access-tokens", 2>>

\* C21: every handler call (Create, Read, Update, Delete, Import, the Read of
\* the data source) sends at most one request, and a call whose exchange
\* failed reports an error after that one request.
C21_NoRetries ==
    last.op # "none" =>
        /\ Len(last.calls) <= 1
        /\ (last.mode = "fail" /\ last.calls # <<>>) =>
               /\ Len(last.calls) = 1
               /\ HasError(last.diags)
               /\ last.remoteKept

C21_Witness ==
    /\ last.op = "ProjectCreate"
    /\ last.mode = "fail"
    /\ Len(last.calls) = 1
    /\ last.calls[1].verb = "POST"
    /\ HasError(last.diags)
    /\ pstate = None

C23_TokenSentWithTokenMethod ==
    \A i \in 1..Len(last.calls) :
        (/\ last.op \in {"ProjectCreate", "ProjectUpdate"}
         /\ last.calls[i].verb \in {"POST", "PATCH"}
         /\ last.calls[i].body.dbtConnection # None
         /\ last.calls[i].body.dbtConnection[1].authorization_method
                = "personal_access_token") =>
            "personal_access_token" \in DOMAIN last.calls[i].body.dbtConnection[1]

\* C24: a Read of the data source that succeeds sets id to
\* "personal-access-tokens" and tokens to one entry per listed token, in
\* ascending order of token_uuid, with expires_at, rotated_at and last_used_at
\* null exactly when the listed token has none; a Read whose list request
\* fails sets no state.
C24_DataSourceListsSorted ==
    last.op = "TokensDataSourceRead" =>
        IF last.mode = "fail"
        THEN /\ HasError(last.diags)
             /\ dstate = None
        ELSE /\ Ok(last)
             /\ dstate # None
             /\ dstate[1].id = <<"personal-access-tokens">>
             /\ Len(dstate[1].tokens) = Len(remote.tokens)
             /\ \A i \in 1..Len(remote.tokens) :
                    \E j \in 1..Len(dstate[1].tokens) :
                        /\ dstate[1].tokens[j].token_uuid = remote.tokens[i].uuid
                        /\ dstate[1].tokens[j].description = remote.tokens[i].description
                        /\ dstate[1].tokens[j].created_at = remote.tokens[i].createdAt
                        /\ dstate[1].tokens[j].expires_at = remote.tokens[i].expiresAt
                        /\ dstate[1].tokens[j].rotated_at = remote.tokens[i].rotatedAt
                        /\ dstate[1].tokens[j].last_used_at = remote.tokens[i].lastUsedAt
             /\ \A j \in 1..Len(dstate[1].tokens), k \in 1..Len(dstate[1].tokens) :
                    j < k => dstate[1].tokens[j].token_uuid < dstate[1].tokens[k].token_uuid

C24_Witness ==
    /\ last.op = "TokensDataSourceRead"
    /\ Ok(last)
    /\ Len(remote.tokens) = 2
    /\ remote.tokens[1].uuid > remote.tokens[2].uuid
    /\ dstate # None
    /\ dstate[1].tokens[1].token_uuid = remote.tokens[2].uuid
    /\ dstate[1].tokens[1].last_used_at = None
    /\ dstate[1].tokens[2].last_used_at # None
    /\ dstate[1].tokens[2].expires_at = None

\* C25: the state a Create that succeeded writes has the dbt_connection, with
\* its personal_access_token, and the warehouse_connection of the plan; a Read
\* that succeeded leaves dbt_connection and warehouse_connection as they were,
\* and dbt_version too when the answer carries no dbt version.
C25_UnechoedFieldsRetained ==
    [][/\ (last'.op = "ProjectCreate" /\ Ok(last')) =>
              /\ pstate' # None
              /\ pstate'[1].dbt_connection = last'.plan[1].dbt_connection
              /\ ("warehouse_connection" \in DOMAIN last'.plan[1]) =>
                     pstate'[1].warehouse_connection = last'.plan[1].warehouse_connection
       /\ (last'.op = "ProjectRead" /\ Ok(last')) =>
              /\ pstate # None
              /\ pstate' # None
              /\ pstate'[1].dbt_connection = pstate[1].dbt_connection
              /\ ("warehouse_connection" \in DOMAIN pstate[1]) =>
                     pstate'[1].warehouse_connection = pstate[1].warehouse_connection
              /\ (last'.mode = "nodbt") =>
                     pstate'[1].dbt_version = pstate[1].dbt_version]_vars

C25_Witness ==
    /\ last.op = "ProjectRead"
    /\ last.mode = "nodbt"
    /\ Ok(last)
    /\ pstate # None
    /\ pstate[1].dbt_connection # None
    /\ pstate[1].dbt_connection[1].personal_access_token = Some("ghp")
    /\ pstate[1].dbt_version = "v1.8"

C27_TokenCreateReadRoundTrip ==
    (last.op = "TokenRead" /\ last.chain = "create-read") =>
        /\ tstate # None
        /\ tstate[1].description = last.plan[1].description
        /\ tstate[1].expires_at = last.plan[1].expires_at
        /\ tstate[1].token_uuid # 0

C27_Witness ==
    /\ last.op = "TokenRead"
    /\ last.chain = "create-read"
    /\ Ok(last)
    /\ tstate # None
    /\ tstate[1].description = "d2"
    /\ tstate[1].expires_at = Some("e1")
    /\ tstate[1].token_uuid = 2

\* C28: a Create, Read, Update or Import whose exchange failed reports
\* exactly one error and leaves the state as it was: none after Create and
\* Import, the prior state after Read and Update.
C28_StateKeptOnError ==
    /\ (last.op \in {"TokenCreate", "TokenRead", "ProjectCreate", "ProjectRead",
                     "ProjectUpdate", "ProjectImport"}
          /\ last.mode = "fail" /\ last.calls # <<>>) => HasError(last.diags)
    /\ (last.op \in {"TokenCreate", "TokenRead", "ProjectCreate", "ProjectRead",
                     "ProjectUpdate", "ProjectImport"}
          /\ last.calls # <<>> /\ HasError(last.diags)) =>
          /\ Len(last.diags.errors) = 1
          /\ last.kept
          /\ last.remoteKept
          /\ (last.op \in {"ProjectCreate", "ProjectImport"}) => pstate = None
          /\ (last.op = "TokenCreate") => tstate = None
          /\ (last.op \in {"ProjectRead", "ProjectUpdate"}) =>
                 (pstate # None /\ pstate[1].project_uuid = last.uuid)
          /\ (last.op = "TokenRead") =>
                 (tstate # None /\ tstate[1].token_uuid = last.uuid)

C28_Witness ==
    /\ last.op = "ProjectRead"
    /\ last.mode = "fail"
    /\ Len(last.calls) = 1
    /\ Len(last.diags.errors) = 1
    /\ last.kept
    /\ pstate # None
    /\ pstate[1].name = "n2"

\* C29: a project Update that succeeds with plan P, followed by a Read that
\* succeeds, leaves a state whose name, dbt_version,
\* organization_warehouse_credentials_uuid and upstream_project_uuid are
\* those of P.
C29_UpdateReadRoundTrip ==
    (last.op = "ProjectRead" /\ last.chain = "update-read") =>
        /\ pstate # None
        /\ pstate[1].name = last.plan[1].name
        /\ pstate[1].dbt_version = last.plan[1].dbt_version
        /\ pstate[1].organization_warehouse_credentials_uuid
               = last.plan[1].organization_warehouse_credentials_uuid
        /\ pstate[1].upstream_project_uuid = last.plan[1].upstream_project_uuid

\* C30: after a token Delete that succeeded the server no longer has the
\* token: a Read of a state with its UUID drops the state and reports no
\* error, and a Read of the data source lists no token with its UUID.  And a
\* Delete of a state whose token_uuid is blank reports an error, sends no
\* request and keeps the state, whatever the server holds.
C30_DeletedTokenIsGone ==
    /\ (last.op = "TokenDelete" /\ Ok(last)) =>
          /\ tstate = None
          /\ Len(last.calls) = 1
          /\ last.calls[1].verb = "DELETE"
          /\ last.calls[1].path = <<"api", "v1", "user", "me", "personal-access-tokens",
                                    last.uuid>>
          /\ \A j \in 1..Len(remote.tokens) : remote.tokens[j].uuid # last.uuid
          /\ TokenRead(Some([TokenPlan([description |-> "d1", expires_at |-> None], None)
                                EXCEPT !.token_uuid = last.uuid]),
                       remote, "ok").state = None
          /\ TokenRead(Some([TokenPlan([description |-> "d1", expires_at |-> None], None)
                                EXCEPT !.token_uuid = last.uuid]),
                       remote, "ok").diags = [errors |-> <<>>, warnings |-> <<>>]
          /\ TokensDataSourceRead(remote, "ok").state # None
          /\ \A j \in 1..Len(TokensDataSourceRead(remote, "ok").state[1].tokens) :
                 TokensDataSourceRead(remote, "ok").state[1].tokens[j].token_uuid
                     # last.uuid
    /\ (kind = "token") =>
          \A mode \in {"ok", "fail"} :
              /\ TokenDelete(Some(TokenPlan([description |-> "d1", expires_at |-> None],
                                            None)),
                             remote, mode).calls = <<>>
              /\ TokenDelete(Some(TokenPlan([description |-> "d1", expires_at |-> None],
                                            None)),
                             remote, mode).diags.errors
                     = <<"Error Deleting personal access token">>
              /\ TokenDelete(Some(TokenPlan([description |-> "d1", expires_at |-> None],
                                            None)),
                             remote, mode).state # None
              /\ TokenDelete(Some(TokenPlan([description |-> "d1", expires_at |-> None],
                                            None)),
                             remote, mode).remote = remote

C30_Witness ==
    /\ last.op = "TokenDelete"
    /\ Ok(last)
    /\ last.uuid = 2
    /\ tstate = None
    /\ Len(remote.tokens) = 1
    /\ remote.tokens[1].uuid = 3

====
